---- MODULE Spec2Model ----
(***************************************************************************)
(* Cluster cost aggregation of costmodel/cluster.go: the three public      *)
(* calls ClusterCosts, ClusterCostsForAllClusters and ClusterCostsOverTime *)
(* and the two result-shaping functions resultToTotal and resultToTotals.  *)
(*                                                                         *)
(* The metrics backend, the cloud provider and the CLUSTER_ID environment  *)
(* variable are the environment: they are fixed by Init.  Every call is    *)
(* one action; it records what the call returned (ret, err), the queries   *)
(* it sent to the backend, in order (queries), and the offset strings it   *)
(* handed to the cloud provider (cloudArgs).                               *)
(***************************************************************************)
EXTENDS Naturals, Sequences, FiniteSets, TLC

VARIABLES
    backend,           \* the backend's answer to each dimension's query
    defaultClusterID,  \* os.Getenv(clusterIDKey)
    api,               \* the last call made ("none" before the first)
    args,              \* its arguments
    ret,               \* its first return value: Nil or Some(value)
    err,               \* its second return value: Nil or Some(message)
    queries,           \* the queries it sent to the backend, in order
    cloudArgs          \* the offsets it passed to cloud.GetLocalStorageQuery

vars == <<backend, defaultClusterID, api, args, ret, err, queries, cloudArgs>>

-----------------------------------------------------------------------------
(* Bounds *)

\* resultToTotal / resultToTotals taken alone (SpecShape)
MaxSeries == 3
MaxSamples == 2
\* the three calls over one rich dimension (SpecData)
DataMaxSeries == 2
DataMaxSamples == 3

-----------------------------------------------------------------------------
(* Go values *)

Nil == <<>>
Some(x) == <<x>>

Dims == {"cores", "ram", "storage", "total"}

\* The label sets of a series, as far as cluster.go reads them: cluster_id
\* absent, empty, or naming a cluster.
LabelSets == {<<>>} \cup {("cluster_id" :> v) : v \in {"", "A", "B"}}

\* Series number i of a response, with n samples.  Timestamps ascend; the
\* values are distinct over the samples of a response (i < 10, k < 10).
MkSeries(labels, n, i) ==
    [Metric |-> labels,
     Values |-> [k \in 1..n |-> [Timestamp |-> 100 * k, Value |-> 10 * i + k]]]

SeriesLists(maxSeries, maxSamples) ==
    UNION {{[i \in 1..n |-> MkSeries(f[i][1], f[i][2], i)] :
                f \in [1..n -> LabelSets \X (0..maxSamples)]} :
           n \in 0..maxSeries}

\* What the backend can answer: the query fails, the payload is not a
\* result envelope, or a list of series.
ExecFailure == [status |-> "error", message |-> "connection refused", results |-> <<>>]
Malformed == [status |-> "malformed", message |-> "", results |-> <<>>]
Success(results) == [status |-> "success", message |-> "", results |-> results]

DefaultIDs == {"", "A"}

\* fmt.Sprintf("%f", x) for the whole numbers the model uses
SprintfF(x) == ToString(x) \o ".000000"

-----------------------------------------------------------------------------
(* Collaborators of cluster.go: the query executor, the result parser, the *)
(* cloud provider and Go's time parsing.                                   *)

\* Query(cli, q): the backend's raw answer to the instant query of a
\* dimension, or the error of a failed execution.
Query(dim, q) ==
    IF backend[dim].status = "error"
    THEN [val |-> Nil, err |-> Some(backend[dim].message)]
    ELSE [val |-> backend[dim], err |-> Nil]

\* QueryRange(cli, q, start, end, step): the same for a range query.
QueryRange(dim, q, start, end, step) ==
    IF backend[dim].status = "error"
    THEN [val |-> Nil, err |-> Some(backend[dim].message)]
    ELSE [val |-> backend[dim], err |-> Nil]

\* NewQueryResults(qr): the series of a well-formed raw answer.
NewQueryResults(qr) ==
    IF qr.status = "success"
    THEN [val |-> qr.results, err |-> Nil]
    ELSE [val |-> <<>>, err |-> Some("Data field improperly formatted in prometheus repsonse")]

\* result.GetString(key): the label's value; "" and an error when absent.
GetString(result, key) ==
    IF key \in DOMAIN result.Metric
    THEN [val |-> result.Metric[key], err |-> Nil]
    ELSE [val |-> "", err |-> Some(key \o " field does not exist in data result vector")]

\* cloud.GetLocalStorageQuery(offset): no local-storage term, a term that
\* carries the offset it is given, or an error.
Providers == {"none", "local", "failing"}

GetLocalStorageQuery(cloud, offset) ==
    CASE cloud = "none" -> [val |-> "", err |-> Nil]
      [] cloud = "local" ->
            [val |-> "sum(container_fs_limit_bytes{device!=\"tmpfs\", id=\"/\"} "
                        \o offset \o ") by (cluster_id) / 1024 / 1024 / 1024 * 0.04",
             err |-> Nil]
      [] OTHER -> [val |-> "", err |-> Some("provider has no local storage query")]

\* time.Parse("2006-01-02T15:04:05.000Z", s), in seconds since the epoch
StartStrings == {"2020-01-01T00:00:00.000Z", "2020-01-01"}
EndStrings == {"2020-01-02T00:00:00.000Z", "tomorrow"}

timeParse(s) ==
    CASE s = "2020-01-01T00:00:00.000Z" -> [val |-> 1577836800, err |-> Nil]
      [] s = "2020-01-02T00:00:00.000Z" -> [val |-> 1577923200, err |-> Nil]
      [] OTHER -> [val |-> 0, err |-> Some("parsing time \"" \o s \o "\": cannot parse")]

\* time.ParseDuration(s), in seconds: Go knows no unit "d"
WindowStrings == {"1h", "1d"}

timeParseDuration(s) ==
    CASE s = "1h" -> [val |-> 3600, err |-> Nil]
      [] OTHER -> [val |-> 0, err |-> Some("time: unknown unit in duration " \o s)]

OffsetStrings == {"", "3h"}

-----------------------------------------------------------------------------
(* resultToTotals and resultToTotal *)

\* []string{d0, d1} of a sample
toAppendOf(value) == <<SprintfF(value.Timestamp), SprintfF(value.Value)>>

\* resultToTotals as the per-cluster policy would have it: the first sample only
resultToTotalsFirstSample(qr) ==
    LET parsed == NewQueryResults(qr) IN
    IF parsed.err # Nil THEN [val |-> Nil, err |-> parsed.err]
    ELSE IF Len(parsed.val) = 0
    THEN [val |-> Nil, err |-> Some("Not enough data available in the selected time range")]
    ELSE LET result == parsed.val[1] IN
         [val |-> IF Len(result.Values) = 0 THEN <<>> ELSE <<toAppendOf(result.Values[1])>>,
          err |-> Nil]

resultToTotals(qr) ==
    LET parsed == NewQueryResults(qr) IN
    IF parsed.err # Nil THEN [val |-> Nil, err |-> parsed.err]
    ELSE IF Len(parsed.val) = 0
    THEN [val |-> Nil, err |-> Some("Not enough data available in the selected time range")]
    ELSE LET result == parsed.val[1] IN
         [val |-> [k \in 1..Len(result.Values) |-> toAppendOf(result.Values[k])],
          err |-> Nil]

\* clusterID of a series without the fallback to the default identifier
clusterIDWithoutDefault(result) == GetString(result, "cluster_id").val

\* lines 77-80: the label, or the default identifier when it is absent or ""
clusterIDOf(result) ==
    LET clusterID == GetString(result, "cluster_id").val IN
    IF clusterID = "" THEN defaultClusterID ELSE clusterID

\* lines 76-100: the loop over the series, from series i on.  In the branch
\* of an existing entry the code appends to its local copy t of the slice
\* header and never stores t back: toReturn is left as it was.
RECURSIVE resultToTotalLoop(_, _, _)
resultToTotalLoop(results, i, toReturn) ==
    IF i > Len(results) THEN toReturn
    ELSE LET result == results[i]
             clusterID == clusterIDOf(result)
         IN IF Len(result.Values) = 0
            THEN resultToTotalLoop(results, i + 1, toReturn)
            ELSE LET toAppend == toAppendOf(result.Values[1]) IN
                 IF clusterID \in DOMAIN toReturn
                 THEN LET t == Append(toReturn[clusterID], toAppend) IN
                      resultToTotalLoop(results, i + 1, toReturn)
                 ELSE resultToTotalLoop(results, i + 1,
                                        (clusterID :> <<toAppend>>) @@ toReturn)

\* resultToTotal failing on an answer without series, as resultToTotals does
resultToTotalNoData(qr) ==
    LET parsed == NewQueryResults(qr) IN
    IF parsed.err # Nil THEN [val |-> <<>>, err |-> parsed.err]
    ELSE IF Len(parsed.val) = 0
    THEN [val |-> <<>>, err |-> Some("Not enough data available in the selected time range")]
    ELSE [val |-> resultToTotalLoop(parsed.val, 1, <<>>), err |-> Nil]

resultToTotal(qr) ==
    LET parsed == NewQueryResults(qr) IN
    IF parsed.err # Nil THEN [val |-> <<>>, err |-> parsed.err]
    ELSE [val |-> resultToTotalLoop(parsed.val, 1, <<>>), err |-> Nil]

-----------------------------------------------------------------------------
(* The query templates, each with fmt.Sprintf's arguments in order *)

queryClusterCores(w1, o1, w2, o2, w3, o3) ==
    "sum( avg(avg_over_time(kube_node_status_capacity_cpu_cores[" \o w1 \o "] " \o o1
    \o ")) by (node, cluster_id) * avg(avg_over_time(node_cpu_hourly_cost[" \o w2 \o "] " \o o2
    \o ")) by (node, cluster_id) * 730 + avg(avg_over_time(node_gpu_hourly_cost[" \o w3 \o "] " \o o3
    \o ")) by (node, cluster_id) * 730 ) by (cluster_id)"

queryClusterRAM(w1, o1, w2, o2) ==
    "sum( avg(avg_over_time(kube_node_status_capacity_memory_bytes[" \o w1 \o "] " \o o1
    \o ")) by (node, cluster_id) / 1024 / 1024 / 1024 * avg(avg_over_time(node_ram_hourly_cost["
    \o w2 \o "] " \o o2 \o ")) by (node, cluster_id) * 730 ) by (cluster_id)"

queryStorage(w1, o1, w2, o2, local) ==
    "sum( avg(avg_over_time(pv_hourly_cost[" \o w1 \o "] " \o o1
    \o ")) by (persistentvolume, cluster_id) * 730 * avg(avg_over_time(kube_persistentvolume_capacity_bytes["
    \o w2 \o "] " \o o2 \o ")) by (persistentvolume, cluster_id) / 1024 / 1024 / 1024 ) by (cluster_id) "
    \o local

queryTotal(local) ==
    "sum(avg(node_total_hourly_cost) by (node, cluster_id)) * 730 + sum( avg(avg_over_time(pv_hourly_cost[1h])) by (persistentvolume, cluster_id) * 730 * avg(avg_over_time(kube_persistentvolume_capacity_bytes[1h])) by (persistentvolume, cluster_id) / 1024 / 1024 / 1024 ) by (cluster_id) "
    \o local

-----------------------------------------------------------------------------
(* Totals and what a call leaves behind *)

Fields == {"TotalCost", "CPUCost", "MemCost", "StorageCost"}

\* &Totals{}: every field a nil slice
EmptyTotals == [TotalCost |-> <<>>, CPUCost |-> <<>>, MemCost |-> <<>>, StorageCost |-> <<>>]

\* m[key] of a Go map: the zero value (a nil slice) for a missing key
MapIndex(m, key) == IF key \in DOMAIN m THEN m[key] ELSE <<>>

\* One entry of the backend's log
Instant(dim, q) == [mode |-> "instant", dim |-> dim, query |-> q, start |-> 0, end |-> 0, step |-> 0]
Range(dim, q, start, end, step) ==
    [mode |-> "range", dim |-> dim, query |-> q, start |-> start, end |-> end, step |-> step]

\* The outcome of a call: its two return values and its traffic
Return(r, e, sent, cArgs) == [ret |-> r, err |-> e, queries |-> sent, cloudArgs |-> cArgs]

\* fmt.Errorf("Error for query %s: %s", q, err.Error())
ErrorForQuery(q, e) == Some("Error for query " \o q \o ": " \o e[1])

\* lines 146-151, 157-162, 168-173: for clusterID, total := range totals,
\* create the cluster's entry if it is missing and set one field of it
MergeField(toReturn, totals, field) ==
    [clusterID \in DOMAIN toReturn \cup DOMAIN totals |->
        IF clusterID \in DOMAIN totals
        THEN [(IF clusterID \in DOMAIN toReturn THEN toReturn[clusterID] ELSE EmptyTotals)
                  EXCEPT ![field] = totals[clusterID]]
        ELSE toReturn[clusterID]]

-----------------------------------------------------------------------------
(* ClusterCostsForAllClusters *)

\* lines 140-175: the three answers shaped and merged per cluster
ForAllClustersTotals(qCores, qRAM, qStorage, resultClusterCores, resultClusterRAM, resultStorage, sent, cArgs) ==
    LET coreTotal == resultToTotal(resultClusterCores) IN
    IF coreTotal.err # Nil THEN Return(Nil, ErrorForQuery(qCores, coreTotal.err), sent, cArgs)
    ELSE
    LET toReturn1 == MergeField(<<>>, coreTotal.val, "CPUCost")
        ramTotal == resultToTotal(resultClusterRAM)
    IN
    IF ramTotal.err # Nil THEN Return(Nil, ErrorForQuery(qRAM, ramTotal.err), sent, cArgs)
    ELSE
    LET toReturn2 == MergeField(toReturn1, ramTotal.val, "MemCost")
        storageTotal == resultToTotal(resultStorage)
    IN
    IF storageTotal.err # Nil
    THEN Return(Nil, ErrorForQuery(qStorage, storageTotal.err), sent, cArgs)
    ELSE Return(Some(MergeField(toReturn2, storageTotal.val, "StorageCost")), Nil, sent, cArgs)

ClusterCostsForAllClusters(cloud, windowString, offsetArg) ==
    LET offset == IF offsetArg # "" THEN "offset " \o offsetArg ELSE offsetArg
        local == GetLocalStorageQuery(cloud, offset)
        cArgs == <<offset>>
    IN
    IF local.err # Nil THEN Return(Nil, local.err, <<>>, cArgs)
    ELSE
    LET localStorageQuery == IF local.val # "" THEN "+ " \o local.val ELSE local.val
        qCores == queryClusterCores(windowString, offset, windowString, offset, windowString, offset)
        qRAM == queryClusterRAM(windowString, offset, windowString, offset)
        qStorage == queryStorage(windowString, offset, windowString, offset, localStorageQuery)
        resultClusterCores == Query("cores", qCores)
        sent1 == <<Instant("cores", qCores)>>
    IN
    IF resultClusterCores.err # Nil
    THEN Return(Nil, ErrorForQuery(qCores, resultClusterCores.err), sent1, cArgs)
    ELSE
    LET resultClusterRAM == Query("ram", qRAM)
        sent2 == Append(sent1, Instant("ram", qRAM))
    IN
    IF resultClusterRAM.err # Nil
    THEN Return(Nil, ErrorForQuery(qRAM, resultClusterRAM.err), sent2, cArgs)
    ELSE
    LET resultStorage == Query("storage", qStorage)
        sent3 == Append(sent2, Instant("storage", qStorage))
    IN
    IF resultStorage.err # Nil
    THEN Return(Nil, ErrorForQuery(qStorage, resultStorage.err), sent3, cArgs)
    ELSE ForAllClustersTotals(qCores, qRAM, qStorage, resultClusterCores.val,
                              resultClusterRAM.val, resultStorage.val, sent3, cArgs)

-----------------------------------------------------------------------------
(* ClusterCosts *)

\* ClusterCostsTotals handing back the dimensions parsed so far when the
\* total-cost answer does not parse
ClusterCostsTotalsPartial(resultClusterCores, resultClusterRAM, resultStorage, resultTotal, sent, cArgs) ==
    LET coreTotal == resultToTotal(resultClusterCores)
        ramTotal == resultToTotal(resultClusterRAM)
        storageTotal == resultToTotal(resultStorage)
        clusterTotal == resultToTotal(resultTotal)
    IN
    IF coreTotal.err # Nil THEN Return(Nil, coreTotal.err, sent, cArgs)
    ELSE IF ramTotal.err # Nil THEN Return(Nil, ramTotal.err, sent, cArgs)
    ELSE IF storageTotal.err # Nil THEN Return(Nil, storageTotal.err, sent, cArgs)
    ELSE Return(Some([TotalCost |-> MapIndex(clusterTotal.val, defaultClusterID),
                      CPUCost |-> MapIndex(coreTotal.val, defaultClusterID),
                      MemCost |-> MapIndex(ramTotal.val, defaultClusterID),
                      StorageCost |-> MapIndex(storageTotal.val, defaultClusterID)]),
                clusterTotal.err, sent, cArgs)

\* lines 218-245: the four answers shaped, and the default cluster's entries
ClusterCostsTotals(resultClusterCores, resultClusterRAM, resultStorage, resultTotal, sent, cArgs) ==
    LET coreTotal == resultToTotal(resultClusterCores)
        ramTotal == resultToTotal(resultClusterRAM)
        storageTotal == resultToTotal(resultStorage)
        clusterTotal == resultToTotal(resultTotal)
    IN
    IF coreTotal.err # Nil THEN Return(Nil, coreTotal.err, sent, cArgs)
    ELSE IF ramTotal.err # Nil THEN Return(Nil, ramTotal.err, sent, cArgs)
    ELSE IF storageTotal.err # Nil THEN Return(Nil, storageTotal.err, sent, cArgs)
    ELSE IF clusterTotal.err # Nil THEN Return(Nil, clusterTotal.err, sent, cArgs)
    ELSE Return(Some([TotalCost |-> MapIndex(clusterTotal.val, defaultClusterID),
                      CPUCost |-> MapIndex(coreTotal.val, defaultClusterID),
                      MemCost |-> MapIndex(ramTotal.val, defaultClusterID),
                      StorageCost |-> MapIndex(storageTotal.val, defaultClusterID)]),
                Nil, sent, cArgs)

ClusterCosts(cloud, windowString, offsetArg) ==
    LET offset == IF offsetArg # "" THEN "offset " \o offsetArg ELSE offsetArg
        local == GetLocalStorageQuery(cloud, offset)
        cArgs == <<offset>>
    IN
    IF local.err # Nil THEN Return(Nil, local.err, <<>>, cArgs)
    ELSE
    LET localStorageQuery == IF local.val # "" THEN "+ " \o local.val ELSE local.val
        qCores == queryClusterCores(windowString, offset, windowString, offset, windowString, offset)
        qRAM == queryClusterRAM(windowString, offset, windowString, offset)
        qStorage == queryStorage(windowString, offset, windowString, offset, localStorageQuery)
        qTotal == queryTotal(localStorageQuery)
        resultClusterCores == Query("cores", qCores)
        sent1 == <<Instant("cores", qCores)>>
    IN
    IF resultClusterCores.err # Nil THEN Return(Nil, resultClusterCores.err, sent1, cArgs)
    ELSE
    LET resultClusterRAM == Query("ram", qRAM)
        sent2 == Append(sent1, Instant("ram", qRAM))
    IN
    IF resultClusterRAM.err # Nil THEN Return(Nil, resultClusterRAM.err, sent2, cArgs)
    ELSE
    LET resultStorage == Query("storage", qStorage)
        sent3 == Append(sent2, Instant("storage", qStorage))
    IN
    IF resultStorage.err # Nil THEN Return(Nil, resultStorage.err, sent3, cArgs)
    ELSE
    LET resultTotal == Query("total", qTotal)
        sent4 == Append(sent3, Instant("total", qTotal))
    IN
    IF resultTotal.err # Nil THEN Return(Nil, resultTotal.err, sent4, cArgs)
    ELSE ClusterCostsTotals(resultClusterCores.val, resultClusterRAM.val, resultStorage.val,
                            resultTotal.val, sent4, cArgs)

-----------------------------------------------------------------------------
(* ClusterCostsOverTime *)

\* parseRangeArgs that lets a window it cannot parse through
parseRangeArgsNoWindowCheck(startString, endString, windowString) ==
    LET start == timeParse(startString)
        end == timeParse(endString)
        window == timeParseDuration(windowString)
    IN
    IF start.err # Nil THEN [start |-> 0, end |-> 0, window |-> 0, err |-> start.err]
    ELSE IF end.err # Nil THEN [start |-> 0, end |-> 0, window |-> 0, err |-> end.err]
    ELSE [start |-> start.val, end |-> end.val, window |-> window.val, err |-> Nil]

\* lines 259-275: start, end and window parsed in this order
parseRangeArgs(startString, endString, windowString) ==
    LET start == timeParse(startString)
        end == timeParse(endString)
        window == timeParseDuration(windowString)
    IN
    IF start.err # Nil THEN [start |-> 0, end |-> 0, window |-> 0, err |-> start.err]
    ELSE IF end.err # Nil THEN [start |-> 0, end |-> 0, window |-> 0, err |-> end.err]
    ELSE IF window.err # Nil THEN [start |-> 0, end |-> 0, window |-> 0, err |-> window.err]
    ELSE [start |-> start.val, end |-> end.val, window |-> window.val, err |-> Nil]

\* lines 306-331: the first series of each of the four answers
ClusterCostsOverTimeTotals(resultClusterCores, resultClusterRAM, resultStorage, resultTotal, sent, cArgs) ==
    LET coreTotal == resultToTotals(resultClusterCores)
        ramTotal == resultToTotals(resultClusterRAM)
        storageTotal == resultToTotals(resultStorage)
        clusterTotal == resultToTotals(resultTotal)
    IN
    IF coreTotal.err # Nil THEN Return(Nil, coreTotal.err, sent, cArgs)
    ELSE IF ramTotal.err # Nil THEN Return(Nil, ramTotal.err, sent, cArgs)
    ELSE IF storageTotal.err # Nil THEN Return(Nil, storageTotal.err, sent, cArgs)
    ELSE IF clusterTotal.err # Nil THEN Return(Nil, clusterTotal.err, sent, cArgs)
    ELSE Return(Some([TotalCost |-> clusterTotal.val,
                      CPUCost |-> coreTotal.val,
                      MemCost |-> ramTotal.val,
                      StorageCost |-> storageTotal.val]),
                Nil, sent, cArgs)

ClusterCostsOverTime(cloud, startString, endString, windowString, offsetArg) ==
    LET local == GetLocalStorageQuery(cloud, offsetArg)
        cArgs == <<offsetArg>>
    IN
    IF local.err # Nil THEN Return(Nil, local.err, <<>>, cArgs)
    ELSE
    LET localStorageQuery == IF local.val # "" THEN "+ " \o local.val ELSE local.val
        parsed == parseRangeArgs(startString, endString, windowString)
    IN
    IF parsed.err # Nil THEN Return(Nil, parsed.err, <<>>, cArgs)
    ELSE
    LET start == parsed.start
        end == parsed.end
        window == parsed.window
        offset == IF offsetArg # "" THEN "offset " \o offsetArg ELSE offsetArg
        qCores == queryClusterCores(windowString, offset, windowString, offset, windowString, offset)
        qRAM == queryClusterRAM(windowString, offset, windowString, offset)
        qStorage == queryStorage(windowString, offset, windowString, offset, localStorageQuery)
        qTotal == queryTotal(localStorageQuery)
        resultClusterCores == QueryRange("cores", qCores, start, end, window)
        sent1 == <<Range("cores", qCores, start, end, window)>>
    IN
    IF resultClusterCores.err # Nil THEN Return(Nil, resultClusterCores.err, sent1, cArgs)
    ELSE
    LET resultClusterRAM == QueryRange("ram", qRAM, start, end, window)
        sent2 == Append(sent1, Range("ram", qRAM, start, end, window))
    IN
    IF resultClusterRAM.err # Nil THEN Return(Nil, resultClusterRAM.err, sent2, cArgs)
    ELSE
    LET resultStorage == QueryRange("storage", qStorage, start, end, window)
        sent3 == Append(sent2, Range("storage", qStorage, start, end, window))
    IN
    IF resultStorage.err # Nil THEN Return(Nil, resultStorage.err, sent3, cArgs)
    ELSE
    LET resultTotal == QueryRange("total", qTotal, start, end, window)
        sent4 == Append(sent3, Range("total", qTotal, start, end, window))
    IN
    IF resultTotal.err # Nil THEN Return(Nil, resultTotal.err, sent4, cArgs)
    ELSE ClusterCostsOverTimeTotals(resultClusterCores.val, resultClusterRAM.val,
                                    resultStorage.val, resultTotal.val, sent4, cArgs)

-----------------------------------------------------------------------------
(* The state machine *)

NoArgs == [dim |-> "", cloud |-> "", startString |-> "", endString |-> "", windowString |-> "", offset |-> ""]

Idle ==
    /\ api = "none"
    /\ args = NoArgs
    /\ ret = Nil
    /\ err = Nil
    /\ queries = <<>>
    /\ cloudArgs = <<>>

\* The call returns: what it handed back and what it sent
Returns(name, a, out) ==
    /\ api' = name
    /\ args' = a
    /\ ret' = out.ret
    /\ err' = out.err
    /\ queries' = out.queries
    /\ cloudArgs' = out.cloudArgs
    /\ UNCHANGED <<backend, defaultClusterID>>

CallClusterCosts(cloud, windowString, offset) ==
    Returns("ClusterCosts",
            [NoArgs EXCEPT !.cloud = cloud, !.windowString = windowString, !.offset = offset],
            ClusterCosts(cloud, windowString, offset))

CallClusterCostsForAllClusters(cloud, windowString, offset) ==
    Returns("ClusterCostsForAllClusters",
            [NoArgs EXCEPT !.cloud = cloud, !.windowString = windowString, !.offset = offset],
            ClusterCostsForAllClusters(cloud, windowString, offset))

CallClusterCostsOverTime(cloud, startString, endString, windowString, offset) ==
    Returns("ClusterCostsOverTime",
            [dim |-> "", cloud |-> cloud, startString |-> startString, endString |-> endString,
             windowString |-> windowString, offset |-> offset],
            ClusterCostsOverTime(cloud, startString, endString, windowString, offset))

\* resultToTotal and resultToTotals applied to a dimension's raw answer
CallResultToTotal(dim) ==
    LET out == resultToTotal(backend[dim]) IN
    Returns("resultToTotal", [NoArgs EXCEPT !.dim = dim],
            Return(IF out.err = Nil THEN Some(out.val) ELSE Nil, out.err, <<>>, <<>>))

CallResultToTotals(dim) ==
    LET out == resultToTotals(backend[dim]) IN
    Returns("resultToTotals", [NoArgs EXCEPT !.dim = dim],
            Return(IF out.err = Nil THEN Some(out.val) ELSE Nil, out.err, <<>>, <<>>))

\* One series of the default cluster with one sample
Baseline == Success(<<MkSeries(<<>>, 1, 1)>>)

\* Spec: every dimension answers independently with a failure or a short
\* answer; the calls take every argument.
BasicAnswers ==
    {ExecFailure, Malformed, Success(<<>>), Baseline,
     Success(<<MkSeries("cluster_id" :> "B", 1, 1)>>)}

Init ==
    /\ backend \in [Dims -> BasicAnswers]
    /\ defaultClusterID \in DefaultIDs
    /\ Idle

Next ==
    \/ \E cloud \in Providers, w \in WindowStrings, o \in OffsetStrings :
          CallClusterCosts(cloud, w, o)
    \/ \E cloud \in Providers, w \in WindowStrings, o \in OffsetStrings :
          CallClusterCostsForAllClusters(cloud, w, o)
    \/ \E cloud \in Providers, s \in StartStrings, e \in EndStrings,
          w \in WindowStrings, o \in OffsetStrings :
          CallClusterCostsOverTime(cloud, s, e, w, o)

Spec == Init /\ [][Next]_vars

\* SpecData: one dimension answers with any list of series within the
\* bounds, the others with the baseline; the calls take arguments that parse.
InitData ==
    /\ \E d \in Dims, r \in SeriesLists(DataMaxSeries, DataMaxSamples) :
          backend = [x \in Dims |-> IF x = d THEN Success(r) ELSE Baseline]
    /\ defaultClusterID \in DefaultIDs
    /\ Idle

NextData ==
    \/ CallClusterCosts("local", "1h", "")
    \/ CallClusterCostsForAllClusters("local", "1h", "")
    \/ CallClusterCostsOverTime("local", "2020-01-01T00:00:00.000Z",
                                "2020-01-02T00:00:00.000Z", "1h", "")

SpecData == InitData /\ [][NextData]_vars

\* SpecShape: the two shaping functions on any raw answer within the bounds
InitShape ==
    /\ \E d \in Dims, r \in {Malformed} \cup {Success(l) : l \in SeriesLists(MaxSeries, MaxSamples)} :
          backend = [x \in Dims |-> IF x = d THEN r ELSE Baseline]
    /\ defaultClusterID \in DefaultIDs
    /\ Idle

NextShape ==
    \/ \E d \in Dims : CallResultToTotal(d)
    \/ \E d \in Dims : CallResultToTotals(d)

SpecShape == InitShape /\ [][NextShape]_vars

-----------------------------------------------------------------------------
(* Vocabulary of the properties *)

APIs == {"ClusterCosts", "ClusterCostsForAllClusters", "ClusterCostsOverTime"}

\* lines 240-245, 326-331, 150-172: the Totals field a dimension fills
FieldOf(dim) ==
    CASE dim = "cores" -> "CPUCost"
      [] dim = "ram" -> "MemCost"
      [] dim = "storage" -> "StorageCost"
      [] OTHER -> "TotalCost"

\* The series the backend returned for a dimension
SeriesOf(dim) == backend[dim].results

Answered(dim) == backend[dim].status = "success"

HasSample(series) == Len(series.Values) >= 1

Unlabelled(series) ==
    \/ "cluster_id" \notin DOMAIN series.Metric
    \/ series.Metric["cluster_id"] = ""

\* The cluster a series belongs to: its label, else the default identifier
AttributedTo(series) ==
    IF Unlabelled(series) THEN defaultClusterID ELSE series.Metric["cluster_id"]

\* The pair of the first sample of a series
FirstPair(series) ==
    <<ToString(series.Values[1].Timestamp) \o ".000000",
      ToString(series.Values[1].Value) \o ".000000">>

InSeq(x, seq) == \E k \in 1..Len(seq) : seq[k] = x

Min(S) == CHOOSE x \in S : \A y \in S : x <= y

\* The indices of the series of a dimension that have a sample and belong
\* to cluster k
SeriesOfCluster(results, k) ==
    {i \in 1..Len(results) : HasSample(results[i]) /\ AttributedTo(results[i]) = k}

\* One pair per series of cluster k that has a sample, in the order returned
RECURSIVE FirstPairsFrom(_, _, _)
FirstPairsFrom(results, k, i) ==
    IF i > Len(results) THEN <<>>
    ELSE IF i \in SeriesOfCluster(results, k)
    THEN <<FirstPair(results[i])>> \o FirstPairsFrom(results, k, i + 1)
    ELSE FirstPairsFrom(results, k, i + 1)

\* One pair per sample of every series, in the order returned
RECURSIVE AllPairsFrom(_, _)
AllPairsFrom(results, i) ==
    IF i > Len(results) THEN <<>>
    ELSE [k \in 1..Len(results[i].Values) |->
             <<ToString(results[i].Values[k].Timestamp) \o ".000000",
               ToString(results[i].Values[k].Value) \o ".000000">>]
         \o AllPairsFrom(results, i + 1)

\* A dimension without a usable series: no series, or none with a sample
NoUsableSeries(dim) ==
    /\ Answered(dim)
    /\ \A i \in 1..Len(SeriesOf(dim)) : ~HasSample(SeriesOf(dim)[i])

\* The dimensions a call queries
QueriedDims(call) ==
    IF call = "ClusterCostsForAllClusters" THEN {"cores", "ram", "storage"} ELSE Dims

\* The query execution or the result parsing of a dimension fails
DimensionFails(call, dim) ==
    \/ backend[dim].status \in {"error", "malformed"}
    \/ call = "ClusterCostsOverTime" /\ Answered(dim) /\ Len(SeriesOf(dim)) = 0

ProviderAnswers == args.cloud \in {"none", "local"}

-----------------------------------------------------------------------------
(* Properties of the single-cluster snapshot, ClusterCosts (SpecData) *)

\* C1, as claimed: after a successful ClusterCosts, every dimension whose
\* first series has a sample has as its field exactly the pair of that first
\* sample, whatever cluster_id the series carries.
C1_FirstSeriesWhateverLabel ==
    (api = "ClusterCosts" /\ ret # Nil) =>
        \A d \in Dims :
            (Answered(d) /\ Len(SeriesOf(d)) >= 1 /\ HasSample(SeriesOf(d)[1])) =>
                ret[1][FieldOf(d)] = <<FirstPair(SeriesOf(d)[1])>>

\* C1, amended: after a successful ClusterCosts, the field of every dimension
\* is the one-element list of the first sample of the first series that has a
\* sample and belongs to the default cluster (cluster_id absent, empty or
\* equal to the default identifier), and is empty when there is no such
\* series; a series labelled with another cluster never fills it.
C1_FirstSeriesOfDefaultCluster ==
    (api = "ClusterCosts" /\ ret # Nil) =>
        \A d \in Dims :
            LET mine == SeriesOfCluster(SeriesOf(d), defaultClusterID) IN
            ret[1][FieldOf(d)] =
                IF mine = {} THEN <<>> ELSE <<FirstPair(SeriesOf(d)[Min(mine)])>>

\* C1, witness: a successful ClusterCosts over a dimension whose first series
\* has a sample and another cluster's label, followed by a series of the
\* default cluster.
C1_Witness ==
    /\ api = "ClusterCosts"
    /\ ret # Nil
    /\ \E d \in Dims :
          /\ Len(SeriesOf(d)) = 2
          /\ HasSample(SeriesOf(d)[1])
          /\ AttributedTo(SeriesOf(d)[1]) # defaultClusterID
          /\ SeriesOfCluster(SeriesOf(d), defaultClusterID) = {2}
          /\ ret[1][FieldOf(d)] = <<FirstPair(SeriesOf(d)[2])>>

\* C7, as claimed: with a dimension without usable series, ClusterCosts
\* fails and returns no Totals, and ClusterCostsForAllClusters does not fail
\* and leaves the dimension's field empty in every cluster's entry.
C7_NoDataFatalForClusterCosts ==
    /\ (api = "ClusterCosts" /\ ProviderAnswers /\ (\A d \in Dims : Answered(d))
        /\ (\E e \in Dims : NoUsableSeries(e)))
            => (err # Nil /\ ret = Nil)
    /\ (api = "ClusterCostsForAllClusters" /\ ProviderAnswers
        /\ \A d \in QueriedDims(api) : Answered(d))
            => /\ err = Nil
               /\ ret # Nil
               /\ \A d \in QueriedDims(api) : NoUsableSeries(d) =>
                      \A k \in DOMAIN ret[1] : ret[1][k][FieldOf(d)] = <<>>

\* C7, amended: a dimension without usable series makes neither snapshot
\* call fail: when the provider and every query answer, ClusterCosts returns
\* a Totals with the dimension's field empty, and ClusterCostsForAllClusters
\* returns a map in which the dimension's field is empty for every cluster.
C7_NoDataNeverFatalInSnapshots ==
    /\ (api = "ClusterCosts" /\ ProviderAnswers /\ \A d \in Dims : Answered(d))
            => /\ err = Nil
               /\ ret # Nil
               /\ \A d \in Dims : NoUsableSeries(d) => ret[1][FieldOf(d)] = <<>>
    /\ (api = "ClusterCostsForAllClusters" /\ ProviderAnswers
        /\ \A d \in QueriedDims(api) : Answered(d))
            => /\ err = Nil
               /\ ret # Nil
               /\ \A d \in QueriedDims(api) : NoUsableSeries(d) =>
                      \A k \in DOMAIN ret[1] : ret[1][k][FieldOf(d)] = <<>>

\* C7, witness: ClusterCosts returned a Totals although a dimension had no
\* series at all.
C7_Witness ==
    /\ api = "ClusterCosts"
    /\ \E d \in Dims : Answered(d) /\ Len(SeriesOf(d)) = 0 /\ ret # Nil /\ err = Nil
                       /\ ret[1][FieldOf(d)] = <<>>

-----------------------------------------------------------------------------
(* Properties of the time series, ClusterCostsOverTime (SpecData) *)

\* C4, as claimed: after a successful ClusterCostsOverTime every field holds
\* one pair per sample of every series of its dimension, in the order
\* returned.
C4_EverySampleOfEverySeries ==
    (api = "ClusterCostsOverTime" /\ ret # Nil) =>
        \A d \in Dims : ret[1][FieldOf(d)] = AllPairsFrom(SeriesOf(d), 1)

\* C4, amended: after a successful ClusterCostsOverTime every dimension
\* returned at least one series and its field holds one pair per sample of
\* the FIRST series only, in the order returned, none dropped, repeated or
\* reordered; the samples of later series are not in the output.
C4_EverySampleOfFirstSeries ==
    (api = "ClusterCostsOverTime" /\ ret # Nil) =>
        \A d \in Dims :
            /\ Len(SeriesOf(d)) >= 1
            /\ ret[1][FieldOf(d)] = AllPairsFrom(SubSeq(SeriesOf(d), 1, 1), 1)

\* C4, witness: a successful ClusterCostsOverTime over a dimension of two
\* series, the first with three samples, the second with samples too.
C4_Witness ==
    /\ api = "ClusterCostsOverTime"
    /\ ret # Nil
    /\ \E d \in Dims :
          /\ Len(SeriesOf(d)) = 2
          /\ Len(SeriesOf(d)[1].Values) = 3
          /\ HasSample(SeriesOf(d)[2])
          /\ Len(ret[1][FieldOf(d)]) = 3

-----------------------------------------------------------------------------
(* Properties of the calls' errors and traffic (Spec) *)

\* C5: in each of the three calls, if the query or the parsing of a
\* dimension the call queries fails, the call returns an error and a nil
\* result.
C5_NoPartialResult ==
    (api \in APIs /\ \E d \in QueriedDims(api) : DimensionFails(api, d)) =>
        (ret = Nil /\ err # Nil)

\* C5, witness: ClusterCosts ran its four queries, the first three dimensions
\* parse and the last does not, and the call returned nil and an error.
C5_Witness ==
    /\ api = "ClusterCosts"
    /\ Len(queries) = 4
    /\ \A d \in {"cores", "ram", "storage"} : Answered(d) /\ ~NoUsableSeries(d)
    /\ backend["total"].status = "malformed"
    /\ ret = Nil
    /\ err # Nil

\* C6: a ClusterCostsOverTime whose start, end or window does not parse
\* returns an error and has sent no query to the backend.
C6_ParseFailureBeforeAnyQuery ==
    (/\ api = "ClusterCostsOverTime"
     /\ \/ timeParse(args.startString).err # Nil
        \/ timeParse(args.endString).err # Nil
        \/ timeParseDuration(args.windowString).err # Nil)
        => (err # Nil /\ ret = Nil /\ Len(queries) = 0)

\* C6, witness: the provider answered, start and end parse, the window does
\* not, every dimension would have answered, and nothing was sent.
C6_Witness ==
    /\ api = "ClusterCostsOverTime"
    /\ args.cloud = "local"
    /\ timeParse(args.startString).err = Nil
    /\ timeParse(args.endString).err = Nil
    /\ timeParseDuration(args.windowString).err # Nil
    /\ \A d \in Dims : Answered(d) /\ ~NoUsableSeries(d)
    /\ cloudArgs # <<>>
    /\ err # Nil
    /\ queries = <<>>

\* C9, as claimed: both snapshot calls send the total-cost query as their
\* fourth query, and after ClusterCostsForAllClusters every cluster with
\* total-cost data has a non-empty TotalCost.
C9_ForAllClustersFillsTotalCost ==
    (api \in {"ClusterCosts", "ClusterCostsForAllClusters"} /\ ret # Nil) =>
        /\ Len(queries) = 4
        /\ queries[4].dim = "total"
        /\ api = "ClusterCostsForAllClusters" =>
              \A i \in 1..Len(SeriesOf("total")) :
                  HasSample(SeriesOf("total")[i]) =>
                      /\ AttributedTo(SeriesOf("total")[i]) \in DOMAIN ret[1]
                      /\ ret[1][AttributedTo(SeriesOf("total")[i])].TotalCost # <<>>

\* C10, as claimed: in each of the three calls a non-empty offset reaches
\* cloud.GetLocalStorageQuery in the rewritten form "offset <value>".
C10_ProviderReceivesRewrittenOffset ==
    (api \in APIs /\ args.offset # "") =>
        cloudArgs = <<"offset " \o args.offset>>

-----------------------------------------------------------------------------
(* Properties of resultToTotal (SpecShape) *)

\* C2, as claimed: every series with an absent or empty cluster_id and a
\* sample has its pair under the default identifier's key, and under no
\* other key.
C2_UnlabelledSeriesUnderDefault ==
    (api = "resultToTotal" /\ ret # Nil) =>
        \A i \in 1..Len(SeriesOf(args.dim)) :
            LET series == SeriesOf(args.dim)[i] IN
            (Unlabelled(series) /\ HasSample(series)) =>
                /\ defaultClusterID \in DOMAIN ret[1]
                /\ InSeq(FirstPair(series), ret[1][defaultClusterID])
                /\ \A k \in DOMAIN ret[1] \ {defaultClusterID} :
                       ~InSeq(FirstPair(series), ret[1][k])

\* C3, as claimed: the entry of a cluster holds one pair per series of that
\* cluster that has a sample, in the order the series were returned.
C3_EntryHoldsEverySeries ==
    (api = "resultToTotal" /\ ret # Nil) =>
        \A i \in 1..Len(SeriesOf(args.dim)) :
            LET series == SeriesOf(args.dim)[i] IN
            HasSample(series) =>
                /\ AttributedTo(series) \in DOMAIN ret[1]
                /\ ret[1][AttributedTo(series)] =
                       FirstPairsFrom(SeriesOf(args.dim), AttributedTo(series), 1)

\* C8, as claimed: a series without samples creates no entry and adds no
\* pair, and every other series of the answer that has a sample has its
\* cluster in the output with its first sample.
C8_EmptySeriesSkipped ==
    (api = "resultToTotal" /\ ret # Nil) =>
        \A i \in 1..Len(SeriesOf(args.dim)) :
            LET results == SeriesOf(args.dim) IN
            ~HasSample(results[i]) =>
                /\ AttributedTo(results[i]) \in DOMAIN ret[1] =>
                      /\ SeriesOfCluster(results, AttributedTo(results[i])) # {}
                      /\ Len(ret[1][AttributedTo(results[i])])
                             <= Cardinality(SeriesOfCluster(results, AttributedTo(results[i])))
                /\ \A j \in 1..Len(results) :
                       HasSample(results[j]) =>
                           /\ AttributedTo(results[j]) \in DOMAIN ret[1]
                           /\ InSeq(FirstPair(results[j]), ret[1][AttributedTo(results[j])])

\* No two series with a sample belong to the same cluster
DistinctClusters(results) ==
    \A k \in {AttributedTo(results[i]) : i \in 1..Len(results)} :
        Cardinality(SeriesOfCluster(results, k)) <= 1

\* What C2, C3 and C8 say holds of every answer in which no two series with
\* a sample belong to the same cluster: the lost append is their only failure.
ShapeHoldsForDistinctClusters ==
    (api = "resultToTotal" /\ DistinctClusters(SeriesOf(args.dim))) =>
        /\ C2_UnlabelledSeriesUnderDefault
        /\ C3_EntryHoldsEverySeries
        /\ C8_EmptySeriesSkipped

====
